---- MODULE Spec2Model ----
(***************************************************************************)
(* Model of the age v1 file pipeline: Encrypt, Decrypt, and the X25519 and *)
(* scrypt recipient/identity pairs.  Cryptographic primitives are symbolic *)
(* (a ciphertext names the key that produced it), byte strings carry their *)
(* length, and the two text conversions used in stanza arguments (base64   *)
(* and decimal) are modelled by what they produce and accept.              *)
(***************************************************************************)
EXTENDS Integers, Sequences, FiniteSets, TLC

(* ------------------------------ bounds --------------------------------- *)
MaxRecipients == 2
MaxIdentities == 2
MaxHeader == 2
NumSeeds == 2

(* ------------------------- program constants --------------------------- *)
RecipientLimit == 20
DefaultWorkFactor == 18
DefaultMaxWorkFactor == 22
WorkFactorLimit == 30
SaltSize == 16
NonceSize == 16
PointSize == 32

scryptLabel == "age-encryption.org/v1/scrypt"
x25519Label == "age-encryption.org/v1/X25519"

(* ------------------------------ errors --------------------------------- *)
NoErr == ""
ErrIncorrectIdentity == "incorrect identity for recipient block"
ErrNoRecipients == "no recipients specified"
ErrNoIdentities == "no identities specified"
ErrScryptOnly == "an scrypt recipient must be the only one"
ErrWrap == "failed to wrap key for recipient"
ErrReadHeader == "failed to read header"
ErrTooMany == "too many recipients"
ErrNoMatch == "no identity matched a recipient"
ErrBadMAC == "bad header MAC"
ErrReadNonce == "failed to read nonce"
ErrScryptBlock == "invalid scrypt recipient block"
ErrScryptSalt == "failed to parse scrypt salt"
ErrScryptParse == "failed to parse scrypt work factor"
ErrScryptTooLarge == "scrypt work factor too large"
ErrScryptInvalid == "invalid scrypt work factor"
ErrScryptHash == "failed to generate scrypt hash"
ErrX25519Block == "invalid X25519 recipient block"
ErrX25519Parse == "failed to parse X25519 recipient"
ErrX25519Point == "invalid X25519 recipient"
ErrLowOrder == "bad input point: low order point"
ErrAEAD == "chacha20poly1305: message authentication failed"
ErrPanic == "age: SetMaxWorkFactor called with illegal value"
ErrMatcherFatal == "identity failed"

(* ------------------------ bytes and strings ---------------------------- *)
\* A byte string is its length and a symbolic content.
Bytes(n, v) == [len |-> n, val |-> v]
NoBytes == Bytes(-1, 0)

\* A stanza argument is a string: either the base64 text of some bytes or
\* plain text, a sequence of characters.
EncodeToString(b) == [b64 |-> b, txt |-> <<>>]
DecodeString(s) ==
  IF s.b64 = NoBytes THEN [bytes |-> NoBytes, err |-> "illegal base64 data"]
  ELSE [bytes |-> s.b64, err |-> NoErr]

DigitChars == <<"0", "1", "2", "3", "4", "5", "6", "7", "8", "9">>
DigitVal(c) == (CHOOSE k \in 1..10 : DigitChars[k] = c) - 1
IsDigit(c) == \E k \in 1..10 : DigitChars[k] = c

RECURSIVE Digits(_)
Digits(n) == IF n < 10 THEN <<DigitChars[n + 1]>>
             ELSE Append(Digits(n \div 10), DigitChars[(n % 10) + 1])

\* strconv.Itoa
Itoa(n) == [b64 |-> NoBytes, txt |-> IF n < 0 THEN <<"-">> \o Digits(-n) ELSE Digits(n)]

RECURSIVE DigitsValue(_, _)
DigitsValue(cs, acc) ==
  IF cs = <<>> THEN acc ELSE DigitsValue(Tail(cs), 10 * acc + DigitVal(Head(cs)))

\* strconv.Atoi: an optional sign, then one or more decimal digits.
Atoi(s) ==
  LET t == s.txt
      signed == t # <<>> /\ Head(t) \in {"+", "-"}
      ds == IF signed THEN Tail(t) ELSE t
  IN IF ds = <<>> \/ \E k \in 1..Len(ds) : ~IsDigit(ds[k])
     THEN [n |-> 0, err |-> "invalid syntax"]
     ELSE [n |-> IF signed /\ Head(t) = "-" THEN -DigitsValue(ds, 0) ELSE DigitsValue(ds, 0),
           err |-> NoErr]

(* --------------------------- primitives -------------------------------- *)
\* Curve25519: a point is the product of the scalars applied to the base
\* point, so the two sides of a Diffie-Hellman exchange agree; the low-order
\* point has content 0 and yields the all-zero output, which X25519 rejects.
Basepoint == Bytes(PointSize, 1)
LowOrderPoint == Bytes(PointSize, 0)
X25519(scalar, point) ==
  IF scalar * point.val = 0 THEN [out |-> NoBytes, err |-> ErrLowOrder]
  ELSE [out |-> Bytes(PointSize, scalar * point.val), err |-> NoErr]

\* hkdf.New(sha256.New, secret, salt, info) read for 32 bytes.
HKDF(secret, salt, info) ==
  [kdf |-> "hkdf", secret |-> secret, salt |-> salt, n |-> 0, info |-> info]

\* scrypt.Key(password, salt, N, 8, 1, 32); N must be a power of two > 1.
ScryptKey(password, salt, N) ==
  IF N <= 1 THEN [key |-> HKDF(0, <<>>, ""), err |-> "scrypt: N must be > 1 and a power of 2"]
  ELSE [key |-> [kdf |-> "scrypt", secret |-> password, salt |-> salt, n |-> N, info |-> scryptLabel],
        err |-> NoErr]

\* ChaCha20-Poly1305 with the zero nonce: the ciphertext opens under the key
\* that sealed it, provided no byte of it was changed.
aeadEncrypt(key, plaintext) == [key |-> key, pt |-> plaintext, intact |-> TRUE]
aeadDecrypt(key, ciphertext) ==
  IF ciphertext.intact /\ ciphertext.key = key
  THEN [pt |-> ciphertext.pt, err |-> NoErr]
  ELSE [pt |-> 0, err |-> ErrAEAD]

\* HMAC-SHA256 under HKDF(fileKey, "header") of the header without its MAC.
headerMAC(fileKey, recipients) == [key |-> fileKey, msg |-> recipients]
NoMAC == [key |-> 0, msg |-> <<>>]

streamKey(fileKey, nonce) == [fileKey |-> fileKey, nonce |-> nonce]

\* crypto/rand: the k-th value drawn by a call seeded with seed.
Rand(seed, k) == ((seed + k) % NumSeeds) + 1

(* ----------------------- recipients: Wrap ------------------------------- *)
NoKey == 0
NoBlock == [Type |-> "", Args |-> <<>>, Body |-> aeadEncrypt(HKDF(0, <<>>, ""), NoKey)]

\* Scalars the random source can produce for an ephemeral key.
EphemeralScalars == <<5, 7, 11, 13, 17>>

\* X25519Identity.Recipient
Recipient(i) == [type |-> "X25519", theirPublicKey |-> i.ourPublicKey]

\* NewX25519Recipient
NewX25519Recipient(publicKey) ==
  IF publicKey.len # PointSize
  THEN [r |-> [type |-> "X25519", theirPublicKey |-> NoBytes], err |-> "invalid X25519 public key"]
  ELSE [r |-> [type |-> "X25519", theirPublicKey |-> publicKey], err |-> NoErr]

\* NewScryptRecipient
NewScryptRecipient(password) ==
  [type |-> "scrypt", password |-> password, workFactor |-> DefaultWorkFactor]

\* ScryptRecipient.SetWorkFactor; an illegal value panics
SetWorkFactor(r, logN) ==
  IF logN > WorkFactorLimit \/ logN < 1
  THEN [r |-> r, err |-> "age: SetWorkFactor called with illegal value"]
  ELSE [r |-> [r EXCEPT !.workFactor = logN], err |-> NoErr]

\* X25519Recipient.Wrap, rnd being the ephemeral scalar read from crypto/rand
X25519Wrap(r, fileKey, rnd) ==
  LET ephemeral == EphemeralScalars[rnd]
      ourPublicKey == X25519(ephemeral, Basepoint)
      sharedSecret == X25519(ephemeral, r.theirPublicKey)
  IN IF ourPublicKey.err # NoErr THEN [block |-> NoBlock, err |-> ourPublicKey.err]
     ELSE IF sharedSecret.err # NoErr THEN [block |-> NoBlock, err |-> sharedSecret.err]
     ELSE LET salt == <<ourPublicKey.out, r.theirPublicKey>>
              wrappingKey == HKDF(sharedSecret.out.val, salt, x25519Label)
          IN [block |-> [Type |-> "X25519",
                         Args |-> <<EncodeToString(ourPublicKey.out)>>,
                         Body |-> aeadEncrypt(wrappingKey, fileKey)],
              err |-> NoErr]

\* ScryptRecipient.Wrap, rnd being the salt read from crypto/rand
ScryptWrap(r, fileKey, rnd) ==
  LET salt == Bytes(SaltSize, rnd)
      logN == r.workFactor
      k == ScryptKey(r.password, <<salt>>, 2 ^ logN)
  IN IF k.err # NoErr THEN [block |-> NoBlock, err |-> ErrScryptHash]
     ELSE [block |-> [Type |-> "scrypt",
                      Args |-> <<EncodeToString(salt), Itoa(logN)>>,
                      Body |-> aeadEncrypt(k.key, fileKey)],
           err |-> NoErr]

\* Recipient.Wrap, dispatched on the recipient's dynamic type
Wrap(r, fileKey, rnd) ==
  IF r.type = "scrypt" THEN ScryptWrap(r, fileKey, rnd) ELSE X25519Wrap(r, fileKey, rnd)

(* ----------------------- identities: Unwrap ---------------------------- *)
\* NewX25519Identity
NewX25519Identity(secretKey) ==
  [kind |-> "X25519Identity", secretKey |-> secretKey,
   ourPublicKey |-> X25519(secretKey, Basepoint).out]

\* NewScryptIdentity
NewScryptIdentity(password) ==
  [kind |-> "ScryptIdentity", password |-> password, maxWorkFactor |-> DefaultMaxWorkFactor]

\* ScryptIdentity.SetMaxWorkFactor; the panic leaves the identity unusable
SetMaxWorkFactor(i, logN) ==
  IF logN > WorkFactorLimit \/ logN < 1
  THEN [i |-> i, err |-> ErrPanic]
  ELSE [i |-> [i EXCEPT !.maxWorkFactor = logN], err |-> NoErr]

\* An identity that implements IdentityMatcher: its Match and Unwrap results.
MatcherIdentity(onMatch, onUnwrap) ==
  [kind |-> "Matcher", type |-> "plugin", onMatch |-> onMatch, onUnwrap |-> onUnwrap]

\* variant: the HKDF salt lists the two public keys in the other order
X25519Unwrap_SaltSwapped(i, block) ==
  IF block.Type # "X25519" THEN [fileKey |-> NoKey, err |-> ErrIncorrectIdentity, kdf |-> <<>>]
  ELSE IF Len(block.Args) # 1 THEN [fileKey |-> NoKey, err |-> ErrX25519Block, kdf |-> <<>>]
  ELSE LET publicKey == DecodeString(block.Args[1]) IN
    IF publicKey.err # NoErr THEN [fileKey |-> NoKey, err |-> ErrX25519Parse, kdf |-> <<>>]
    ELSE IF publicKey.bytes.len # PointSize
      THEN [fileKey |-> NoKey, err |-> ErrX25519Block, kdf |-> <<>>]
    ELSE LET sharedSecret == X25519(i.secretKey, publicKey.bytes) IN
      IF sharedSecret.err # NoErr THEN [fileKey |-> NoKey, err |-> ErrX25519Point, kdf |-> <<>>]
      ELSE LET salt == <<i.ourPublicKey, publicKey.bytes>>
               wrappingKey == HKDF(sharedSecret.out.val, salt, x25519Label)
               opened == aeadDecrypt(wrappingKey, block.Body)
           IN IF opened.err # NoErr
              THEN [fileKey |-> NoKey, err |-> ErrIncorrectIdentity, kdf |-> <<>>]
              ELSE [fileKey |-> opened.pt, err |-> NoErr, kdf |-> <<>>]

\* X25519Identity.Unwrap
X25519Unwrap(i, block) ==
  IF block.Type # "X25519" THEN [fileKey |-> NoKey, err |-> ErrIncorrectIdentity, kdf |-> <<>>]
  ELSE IF Len(block.Args) # 1 THEN [fileKey |-> NoKey, err |-> ErrX25519Block, kdf |-> <<>>]
  ELSE LET publicKey == DecodeString(block.Args[1]) IN
    IF publicKey.err # NoErr THEN [fileKey |-> NoKey, err |-> ErrX25519Parse, kdf |-> <<>>]
    ELSE IF publicKey.bytes.len # PointSize
      THEN [fileKey |-> NoKey, err |-> ErrX25519Block, kdf |-> <<>>]
    ELSE LET sharedSecret == X25519(i.secretKey, publicKey.bytes) IN
      IF sharedSecret.err # NoErr THEN [fileKey |-> NoKey, err |-> ErrX25519Point, kdf |-> <<>>]
      ELSE LET salt == <<publicKey.bytes, i.ourPublicKey>>
               wrappingKey == HKDF(sharedSecret.out.val, salt, x25519Label)
               opened == aeadDecrypt(wrappingKey, block.Body)
           IN IF opened.err # NoErr
              THEN [fileKey |-> NoKey, err |-> ErrIncorrectIdentity, kdf |-> <<>>]
              ELSE [fileKey |-> opened.pt, err |-> NoErr, kdf |-> <<>>]

\* variant: the tag failure is returned as it is
ScryptUnwrap_TagErrorReturned(i, block) ==
  IF block.Type # "scrypt" THEN [fileKey |-> NoKey, err |-> ErrIncorrectIdentity, kdf |-> <<>>]
  ELSE IF Len(block.Args) # 2 THEN [fileKey |-> NoKey, err |-> ErrScryptBlock, kdf |-> <<>>]
  ELSE LET salt == DecodeString(block.Args[1]) IN
    IF salt.err # NoErr THEN [fileKey |-> NoKey, err |-> ErrScryptSalt, kdf |-> <<>>]
    ELSE IF salt.bytes.len # SaltSize
      THEN [fileKey |-> NoKey, err |-> ErrScryptBlock, kdf |-> <<>>]
    ELSE LET logN == Atoi(block.Args[2]) IN
      IF logN.err # NoErr THEN [fileKey |-> NoKey, err |-> ErrScryptParse, kdf |-> <<>>]
      ELSE IF logN.n > i.maxWorkFactor
        THEN [fileKey |-> NoKey, err |-> ErrScryptTooLarge, kdf |-> <<>>]
      ELSE IF logN.n <= 0
        THEN [fileKey |-> NoKey, err |-> ErrScryptInvalid, kdf |-> <<>>]
      ELSE LET k == ScryptKey(i.password, <<salt.bytes>>, 2 ^ logN.n) IN
        IF k.err # NoErr THEN [fileKey |-> NoKey, err |-> ErrScryptHash, kdf |-> <<logN.n>>]
        ELSE LET opened == aeadDecrypt(k.key, block.Body) IN
          IF opened.err # NoErr
          THEN [fileKey |-> NoKey, err |-> ErrAEAD, kdf |-> <<logN.n>>]
          ELSE [fileKey |-> opened.pt, err |-> NoErr, kdf |-> <<logN.n>>]

\* variant: the cap is the largest work factor an identity may be set to
ScryptUnwrap_CapIsLimit(i, block) ==
  IF block.Type # "scrypt" THEN [fileKey |-> NoKey, err |-> ErrIncorrectIdentity, kdf |-> <<>>]
  ELSE IF Len(block.Args) # 2 THEN [fileKey |-> NoKey, err |-> ErrScryptBlock, kdf |-> <<>>]
  ELSE LET salt == DecodeString(block.Args[1]) IN
    IF salt.err # NoErr THEN [fileKey |-> NoKey, err |-> ErrScryptSalt, kdf |-> <<>>]
    ELSE IF salt.bytes.len # SaltSize
      THEN [fileKey |-> NoKey, err |-> ErrScryptBlock, kdf |-> <<>>]
    ELSE LET logN == Atoi(block.Args[2]) IN
      IF logN.err # NoErr THEN [fileKey |-> NoKey, err |-> ErrScryptParse, kdf |-> <<>>]
      ELSE IF logN.n > WorkFactorLimit
        THEN [fileKey |-> NoKey, err |-> ErrScryptTooLarge, kdf |-> <<>>]
      ELSE IF logN.n <= 0
        THEN [fileKey |-> NoKey, err |-> ErrScryptInvalid, kdf |-> <<>>]
      ELSE LET k == ScryptKey(i.password, <<salt.bytes>>, 2 ^ logN.n) IN
        IF k.err # NoErr THEN [fileKey |-> NoKey, err |-> ErrScryptHash, kdf |-> <<logN.n>>]
        ELSE LET opened == aeadDecrypt(k.key, block.Body) IN
          IF opened.err # NoErr
          THEN [fileKey |-> NoKey, err |-> ErrIncorrectIdentity, kdf |-> <<logN.n>>]
          ELSE [fileKey |-> opened.pt, err |-> NoErr, kdf |-> <<logN.n>>]

\* ScryptIdentity.Unwrap; kdf lists the work factors scrypt.Key was run with
ScryptUnwrap(i, block) ==
  IF block.Type # "scrypt" THEN [fileKey |-> NoKey, err |-> ErrIncorrectIdentity, kdf |-> <<>>]
  ELSE IF Len(block.Args) # 2 THEN [fileKey |-> NoKey, err |-> ErrScryptBlock, kdf |-> <<>>]
  ELSE LET salt == DecodeString(block.Args[1]) IN
    IF salt.err # NoErr THEN [fileKey |-> NoKey, err |-> ErrScryptSalt, kdf |-> <<>>]
    ELSE IF salt.bytes.len # SaltSize
      THEN [fileKey |-> NoKey, err |-> ErrScryptBlock, kdf |-> <<>>]
    ELSE LET logN == Atoi(block.Args[2]) IN
      IF logN.err # NoErr THEN [fileKey |-> NoKey, err |-> ErrScryptParse, kdf |-> <<>>]
      ELSE IF logN.n > i.maxWorkFactor
        THEN [fileKey |-> NoKey, err |-> ErrScryptTooLarge, kdf |-> <<>>]
      ELSE IF logN.n <= 0
        THEN [fileKey |-> NoKey, err |-> ErrScryptInvalid, kdf |-> <<>>]
      ELSE LET k == ScryptKey(i.password, <<salt.bytes>>, 2 ^ logN.n) IN
        IF k.err # NoErr THEN [fileKey |-> NoKey, err |-> ErrScryptHash, kdf |-> <<logN.n>>]
        ELSE LET opened == aeadDecrypt(k.key, block.Body) IN
          IF opened.err # NoErr
          THEN [fileKey |-> NoKey, err |-> ErrIncorrectIdentity, kdf |-> <<logN.n>>]
          ELSE [fileKey |-> opened.pt, err |-> NoErr, kdf |-> <<logN.n>>]

\* Identity.Type
Type(i) ==
  IF i.kind = "X25519Identity" THEN "X25519"
  ELSE IF i.kind = "ScryptIdentity" THEN "scrypt"
  ELSE i.type

\* whether the identity's dynamic type implements IdentityMatcher
IsMatcher(i) == i.kind = "Matcher"

\* IdentityMatcher.Match
Match(i, block) == i.onMatch

\* Identity.Unwrap, dispatched on the identity's dynamic type
Unwrap(i, block) ==
  IF i.kind = "X25519Identity" THEN X25519Unwrap(i, block)
  ELSE IF i.kind = "ScryptIdentity" THEN ScryptUnwrap(i, block)
  ELSE IF i.onUnwrap = NoErr
    THEN [fileKey |-> block.Body.pt, err |-> NoErr, kdf |-> <<>>]
    ELSE [fileKey |-> NoKey, err |-> i.onUnwrap, kdf |-> <<>>]

(* ------------------------------ Encrypt -------------------------------- *)
NoPayload == [key |-> streamKey(NoKey, NoBytes), pt |-> 0]
NoFile == [parseOK |-> FALSE, Recipients |-> <<>>, MAC |-> NoMAC,
           nonce |-> NoBytes, payload |-> NoPayload]

\* what Encrypt does once the header is built: the MAC, the nonce, the
\* payload written through the stream writer
EncryptHeader(rs, p, seed, fileKey, hdr) ==
  IF hdr.err # NoErr THEN [file |-> NoFile, err |-> hdr.err]
  ELSE [file |-> [parseOK |-> TRUE,
                  Recipients |-> hdr.blocks,
                  MAC |-> headerMAC(fileKey, hdr.blocks),
                  nonce |-> Bytes(NonceSize, Rand(seed, Len(rs) + 1)),
                  payload |-> [key |-> streamKey(fileKey, Bytes(NonceSize, Rand(seed, Len(rs) + 1))),
                               pt |-> p]],
        err |-> NoErr]

RECURSIVE WrapAll(_, _, _, _, _)
RECURSIVE WrapAll_CheckFirstOnly(_, _, _, _, _)

\* the end of one iteration of Encrypt's loop: the block w is appended
Wrapped(rs, fileKey, seed, k, blocks, w) ==
  IF w.err # NoErr THEN [blocks |-> blocks, err |-> ErrWrap]
  ELSE WrapAll(rs, fileKey, seed, k + 1, Append(blocks, w.block))

\* variant: the scrypt test is made for the first recipient only
WrapAll_CheckFirstOnly(rs, fileKey, seed, k, blocks) ==
  IF k > Len(rs) THEN [blocks |-> blocks, err |-> NoErr]
  ELSE IF k = 1 /\ rs[k].type = "scrypt" /\ Len(rs) # 1
    THEN [blocks |-> blocks, err |-> ErrScryptOnly]
  ELSE Wrapped(rs, fileKey, seed, k, blocks, Wrap(rs[k], fileKey, Rand(seed, k)))

\* the loop of Encrypt over the recipients, from recipient k on
WrapAll(rs, fileKey, seed, k, blocks) ==
  IF k > Len(rs) THEN [blocks |-> blocks, err |-> NoErr]
  ELSE IF rs[k].type = "scrypt" /\ Len(rs) # 1 THEN [blocks |-> blocks, err |-> ErrScryptOnly]
  ELSE Wrapped(rs, fileKey, seed, k, blocks, Wrap(rs[k], fileKey, Rand(seed, k)))

\* Encrypt, then Write(p) and Close on the returned writer; seed fixes what
\* crypto/rand returns during the call.
Encrypt(rs, p, seed) ==
  IF Len(rs) = 0 THEN [file |-> NoFile, err |-> ErrNoRecipients]
  ELSE EncryptHeader(rs, p, seed, Rand(seed, 0), WrapAll(rs, Rand(seed, 0), seed, 1, <<>>))

(* ------------------------------ Decrypt -------------------------------- *)
\* one entry of the sequence of calls Decrypt makes
Call(op, s, i, e, key, kdf) ==
  [op |-> op, s |-> s, i |-> i, err |-> e, key |-> key, kdf |-> kdf]

RECURSIVE IdentitiesLoop(_, _, _, _, _, _)

\* variant: a successful Unwrap does not end the scan
AfterUnwrap_NoBreak(r, s, ids, i, calls, u) ==
  IF u.err = ErrIncorrectIdentity \/ u.err = NoErr
  THEN IdentitiesLoop(r, s, ids, i + 1, u.fileKey,
                      Append(calls, Call("Unwrap", s, i, u.err, u.fileKey, u.kdf)))
  ELSE [ctl |-> "return", fileKey |-> NoKey, err |-> u.err,
        calls |-> Append(calls, Call("Unwrap", s, i, u.err, u.fileKey, u.kdf))]

\* Decrypt after identity i's Unwrap returned u for stanza r
AfterUnwrap(r, s, ids, i, calls, u) ==
  IF u.err = ErrIncorrectIdentity
  THEN IdentitiesLoop(r, s, ids, i + 1, u.fileKey,
                      Append(calls, Call("Unwrap", s, i, u.err, u.fileKey, u.kdf)))
  ELSE IF u.err # NoErr
    THEN [ctl |-> "return", fileKey |-> NoKey, err |-> u.err,
          calls |-> Append(calls, Call("Unwrap", s, i, u.err, u.fileKey, u.kdf))]
  ELSE [ctl |-> "break", fileKey |-> u.fileKey, err |-> NoErr,
        calls |-> Append(calls, Call("Unwrap", s, i, u.err, u.fileKey, u.kdf))]

\* variant: every error of Match makes the loop go on
AfterMatch_AllRecovered(r, s, ids, i, fileKey, calls, m) ==
  IF m # NoErr
  THEN IdentitiesLoop(r, s, ids, i + 1, fileKey,
                      Append(calls, Call("Match", s, i, m, NoKey, <<>>)))
  ELSE AfterUnwrap(r, s, ids, i, Append(calls, Call("Match", s, i, m, NoKey, <<>>)),
                   Unwrap(ids[i], r))

\* Decrypt after identity i's Match returned m for stanza r
AfterMatch(r, s, ids, i, fileKey, calls, m) ==
  IF m = ErrIncorrectIdentity
  THEN IdentitiesLoop(r, s, ids, i + 1, fileKey,
                      Append(calls, Call("Match", s, i, m, NoKey, <<>>)))
  ELSE IF m # NoErr
    THEN [ctl |-> "return", fileKey |-> NoKey, err |-> m,
          calls |-> Append(calls, Call("Match", s, i, m, NoKey, <<>>))]
  ELSE AfterUnwrap(r, s, ids, i, Append(calls, Call("Match", s, i, m, NoKey, <<>>)),
                   Unwrap(ids[i], r))

\* The inner loop of Decrypt: the identities from i on are tried on stanza r,
\* the s-th of the header.  calls is the sequence of Match and Unwrap calls
\* made so far; ctl tells how the loop ended: "next" (identities exhausted),
\* "break" (break RecipientsLoop) or "return" (return nil, err).
IdentitiesLoop(r, s, ids, i, fileKey, calls) ==
  IF i > Len(ids)
  THEN [ctl |-> "next", fileKey |-> fileKey, err |-> NoErr, calls |-> calls]
  ELSE IF Type(ids[i]) # r.Type THEN IdentitiesLoop(r, s, ids, i + 1, fileKey, calls)
  ELSE IF IsMatcher(ids[i])
    THEN AfterMatch(r, s, ids, i, fileKey, calls, Match(ids[i], r))
  ELSE AfterUnwrap(r, s, ids, i, calls, Unwrap(ids[i], r))

RECURSIVE RecipientsLoop(_, _, _, _, _)

\* Decrypt after the identities were tried on stanza s with result r
AfterIdentities(rs, ids, s, r) ==
  IF r.ctl = "next" THEN RecipientsLoop(rs, ids, s + 1, r.fileKey, r.calls)
  ELSE [fileKey |-> r.fileKey, err |-> r.err, calls |-> r.calls]

\* The outer loop of Decrypt, RecipientsLoop, from stanza s on.
RecipientsLoop(rs, ids, s, fileKey, calls) ==
  IF s > Len(rs) THEN [fileKey |-> fileKey, err |-> NoErr, calls |-> calls]
  ELSE IF rs[s].Type = "scrypt" /\ Len(rs) # 1
    THEN [fileKey |-> NoKey, err |-> ErrScryptOnly, calls |-> calls]
  ELSE AfterIdentities(rs, ids, s, IdentitiesLoop(rs[s], s, ids, 1, fileKey, calls))

\* the test that follows the loops: fileKey == nil
AfterLoop(r) ==
  IF r.err # NoErr THEN r
  ELSE IF r.fileKey = NoKey THEN [r EXCEPT !.err = ErrNoMatch]
  ELSE r

\* format.Parse and the limit on the number of recipients
ParseStep(f) ==
  IF ~f.parseOK THEN ErrReadHeader
  ELSE IF Len(f.Recipients) > RecipientLimit THEN ErrTooMany
  ELSE NoErr

\* variant: only the first stanza of the header is tried
MatchStep_FirstStanzaOnly(f, ids) ==
  AfterLoop(RecipientsLoop(SubSeq(f.Recipients, 1, 1), ids, 1, NoKey, <<>>))

\* the matching loop and the test that follows it
MatchStep(f, ids) == AfterLoop(RecipientsLoop(f.Recipients, ids, 1, NoKey, <<>>))

\* variant: the recomputed MAC is not compared with the stored one
MACStep_NotCompared(f, fk) ==
  IF headerMAC(fk, f.Recipients) # headerMAC(fk, f.Recipients) THEN ErrBadMAC ELSE NoErr

\* the header MAC check
MACStep(f, fk) ==
  IF headerMAC(fk, f.Recipients) # f.MAC THEN ErrBadMAC ELSE NoErr

\* io.ReadFull of the payload nonce
NonceStep(f) ==
  IF f.nonce.len < NonceSize THEN ErrReadNonce ELSE NoErr

\* reading the stream.Reader to its end
ErrStream == "failed to decrypt and authenticate payload chunk"
StreamRead(f, fk) ==
  IF f.payload.key = streamKey(fk, f.nonce)
  THEN [out |-> f.payload.pt, err |-> NoErr]
  ELSE [out |-> 0, err |-> ErrStream]

\* Decrypt followed by a read of the returned reader to its end
Decrypt(f, ids) ==
  IF Len(ids) = 0 THEN [out |-> 0, err |-> ErrNoIdentities, reader |-> FALSE]
  ELSE IF ParseStep(f) # NoErr THEN [out |-> 0, err |-> ParseStep(f), reader |-> FALSE]
  ELSE LET m == MatchStep(f, ids) IN
    IF m.err # NoErr THEN [out |-> 0, err |-> m.err, reader |-> FALSE]
    ELSE IF MACStep(f, m.fileKey) # NoErr THEN [out |-> 0, err |-> ErrBadMAC, reader |-> FALSE]
    ELSE IF NonceStep(f) # NoErr THEN [out |-> 0, err |-> ErrReadNonce, reader |-> FALSE]
    ELSE [out |-> StreamRead(f, m.fileKey).out, err |-> StreamRead(f, m.fileKey).err,
          reader |-> TRUE]

(* ------------------------------- inputs -------------------------------- *)
\* every sequence over S of length lo..hi
Lists(S, lo, hi) == UNION {[1..k -> S] : k \in lo..hi}

Plaintexts == {7, 8}
Seeds == 0..(NumSeeds - 1)

idA == NewX25519Identity(2)
idB == NewX25519Identity(3)
Passwords == <<1, 2>>
pwA == Passwords[1]
pwB == Passwords[2]

\* recipients a caller of Encrypt can build
RecipientPool ==
  {Recipient(idA), Recipient(idB), NewX25519Recipient(LowOrderPoint).r,
   NewScryptRecipient(pwA), SetWorkFactor(NewScryptRecipient(pwA), DefaultMaxWorkFactor + 1).r}

\* a long list of X25519 recipients, alternating between two keys
LongList(n) == [k \in 1..n |-> IF k % 2 = 1 THEN Recipient(idA) ELSE Recipient(idB)]

RecipientLists ==
  Lists(RecipientPool, 0, MaxRecipients) \cup {LongList(RecipientLimit), LongList(RecipientLimit + 1)}

\* identities a caller of Decrypt can build
IdentityPool ==
  {idA, idB, NewScryptIdentity(pwA), NewScryptIdentity(pwB),
   SetMaxWorkFactor(NewScryptIdentity(pwA), WorkFactorLimit).i}

IdentityLists == Lists(IdentityPool, 0, MaxIdentities)

(* -------------------------------- state -------------------------------- *)
VARIABLES
  recipients,   \* the recipients Encrypt was called with
  plaintext,    \* the plaintext written to the writer Encrypt returned
  encErr,       \* the error Encrypt returned
  sent,         \* the file Encrypt produced
  file,         \* the file Decrypt reads
  origin,       \* how file came about: "none", "encrypt", "tampered", "handcrafted"
  identities,   \* the identities Decrypt was called with
  pc,           \* Decrypt's position
  fileKey,      \* Decrypt's fileKey
  err,          \* the error Decrypt returned
  calls,        \* the Match and Unwrap calls Decrypt made, in order
  trace,        \* the steps of Decrypt that ran, in order
  out,          \* what the returned reader yielded
  ident,        \* a scrypt identity being configured and used directly
  uw            \* the last direct call of ident.Unwrap

vars == <<recipients, plaintext, encErr, sent, file, origin, identities, pc, fileKey,
          err, calls, trace, out, ident, uw>>

encVars == <<recipients, plaintext, encErr, sent, file, origin>>
decVars == <<identities, pc, fileKey, err, calls, trace, out>>
idVars == <<ident, uw>>

NoUnwrap == [called |-> FALSE, block |-> NoBlock, max |-> 0,
             res |-> [fileKey |-> NoKey, err |-> NoErr, kdf |-> <<>>]]

Init ==
  /\ recipients = <<>>
  /\ plaintext = 0
  /\ encErr = NoErr
  /\ sent = NoFile
  /\ file = NoFile
  /\ origin = "none"
  /\ identities = <<>>
  /\ pc = "idle"
  /\ fileKey = NoKey
  /\ err = NoErr
  /\ calls = <<>>
  /\ trace = <<>>
  /\ out = 0
  /\ ident = NewScryptIdentity(pwA)
  /\ uw = NoUnwrap

(* ------------------------------- actions ------------------------------- *)
\* the outcome e of Encrypt(rs...) with p written is recorded
Encrypted(rs, p, e) ==
  /\ recipients' = rs
  /\ plaintext' = p
  /\ encErr' = e.err
  /\ sent' = e.file
  /\ file' = e.file

\* a call of Encrypt with recipients from lists, the plaintext written, Close
EncryptFrom(lists) ==
  /\ origin = "none"
  /\ \E rs \in lists, p \in Plaintexts, seed \in Seeds : Encrypted(rs, p, Encrypt(rs, p, seed))
  /\ origin' = "encrypt"
  /\ UNCHANGED <<decVars, idVars>>

\* entry of Decrypt: the test for an empty identity list
DecryptFrom(lists) ==
  /\ origin # "none"
  /\ encErr = NoErr
  /\ pc = "idle"
  /\ \E ids \in lists :
       /\ identities' = ids
       /\ IF Len(ids) = 0
          THEN pc' = "Fail" /\ err' = ErrNoIdentities
          ELSE pc' = "ParseHeader" /\ err' = NoErr
  /\ UNCHANGED <<encVars, idVars, fileKey, calls, trace, out>>

\* format.Parse and the recipient limit
ParseHeader ==
  /\ pc = "ParseHeader"
  /\ trace' = Append(trace, "ParseHeader")
  /\ err' = ParseStep(file)
  /\ pc' = IF ParseStep(file) # NoErr THEN "Fail" ELSE "MatchLoop"
  /\ UNCHANGED <<encVars, idVars, identities, fileKey, calls, out>>

\* the matching loop ended with m
Matched(m) ==
  /\ calls' = m.calls
  /\ fileKey' = m.fileKey
  /\ err' = m.err
  /\ pc' = IF m.err # NoErr THEN "Fail" ELSE "VerifyMAC"

\* the loop over stanzas and identities, and the fileKey == nil test
MatchLoop ==
  /\ pc = "MatchLoop"
  /\ trace' = Append(trace, "MatchLoop")
  /\ Matched(MatchStep(file, identities))
  /\ UNCHANGED <<encVars, idVars, identities, out>>

\* variant: a MAC mismatch is noted but Decrypt goes on
VerifyMAC_GoesOn ==
  /\ pc = "VerifyMAC"
  /\ trace' = Append(trace, "VerifyMAC")
  /\ err' = NoErr
  /\ pc' = "ReadNonce"
  /\ UNCHANGED <<encVars, idVars, identities, fileKey, calls, out>>

\* headerMAC and hmac.Equal
VerifyMAC ==
  /\ pc = "VerifyMAC"
  /\ trace' = Append(trace, "VerifyMAC")
  /\ err' = MACStep(file, fileKey)
  /\ pc' = IF MACStep(file, fileKey) # NoErr THEN "Fail" ELSE "ReadNonce"
  /\ UNCHANGED <<encVars, idVars, identities, fileKey, calls, out>>

\* io.ReadFull(payload, nonce) and stream.NewReader: the reader is returned
ReadNonce ==
  /\ pc = "ReadNonce"
  /\ trace' = Append(trace, "ReadNonce")
  /\ err' = NonceStep(file)
  /\ pc' = IF NonceStep(file) # NoErr THEN "Fail" ELSE "Streaming"
  /\ UNCHANGED <<encVars, idVars, identities, fileKey, calls, out>>

\* the caller reads the returned reader to its end
Streaming ==
  /\ pc = "Streaming"
  /\ trace' = Append(trace, "Streaming")
  /\ out' = StreamRead(file, fileKey).out
  /\ err' = StreamRead(file, fileKey).err
  /\ pc' = IF StreamRead(file, fileKey).err # NoErr THEN "Fail" ELSE "Done"
  /\ UNCHANGED <<encVars, idVars, identities, fileKey, calls>>

EncryptCall == EncryptFrom(RecipientLists)
DecryptCall == DecryptFrom(IdentityLists)

Next == EncryptCall \/ DecryptCall \/ ParseHeader \/ MatchLoop \/ VerifyMAC \/ ReadNonce \/ Streaming

Spec == Init /\ [][Next]_vars

(* ------------------- claims about Encrypt then Decrypt ----------------- *)
Terminal == pc \in {"Done", "Fail"}
FromEncrypt == origin = "encrypt" /\ encErr = NoErr
Range(q) == {q[k] : k \in 1..Len(q)}
\* the identity holds the secret of the recipient: the X25519 scalar of its
\* public key, or its passphrase
Holds(id, r) ==
  \/ id.kind = "X25519Identity" /\ r.type = "X25519" /\ Recipient(id) = r
  \/ id.kind = "ScryptIdentity" /\ r.type = "scrypt" /\ id.password = r.password

\* the identity list is exactly the identities of the recipients in rs
MatchingIdentities(ids, rs) ==
  /\ Len(ids) >= 1
  /\ \A k \in 1..Len(ids) : \E j \in 1..Len(rs) : Holds(ids[k], rs[j])
  /\ \A j \in 1..Len(rs) : \E k \in 1..Len(ids) : Holds(ids[k], rs[j])

\* a scrypt identity accepts the recipient's work factor
Accepts(id, r) ==
  (id.kind = "ScryptIdentity" /\ r.type = "scrypt") => r.workFactor <= id.maxWorkFactor

MatchesOne(ids, rs) ==
  /\ Len(ids) = 1
  /\ \E j \in 1..Len(rs) : Holds(ids[1], rs[j]) /\ Accepts(ids[1], rs[j])

NoneHolds(ids, rs) ==
  /\ Len(ids) >= 1
  /\ \A k \in 1..Len(ids) : \A j \in 1..Len(rs) :
       ~Holds(ids[k], rs[j]) /\ Accepts(ids[k], rs[j])

HasScrypt(rs) == \E k \in 1..Len(rs) : rs[k].type = "scrypt"
FirstScrypt(rs) == CHOOSE k \in 1..Len(rs) :
  rs[k].type = "scrypt" /\ \A j \in 1..(k - 1) : rs[j].type # "scrypt"

\* C8 as stated: Encrypt with more than one recipient, one of them scrypt at
\* any position, fails with "an scrypt recipient must be the only one"; a
\* single scrypt recipient is not rejected by this rule.
C8_ScryptOnly_AsStated ==
  origin = "encrypt" =>
    /\ (Len(recipients) > 1 /\ HasScrypt(recipients)) => encErr = ErrScryptOnly
    /\ (Len(recipients) = 1 /\ HasScrypt(recipients)) => encErr # ErrScryptOnly

\* C8 restated: such a call of Encrypt always fails and produces no file; the
\* error is "an scrypt recipient must be the only one" unless a recipient
\* placed before the first scrypt recipient cannot be wrapped (an X25519
\* recipient holding a low-order point), in which case it is that recipient's
\* wrap error.  A single scrypt recipient is accepted.
C8_ScryptOnly ==
  origin = "encrypt" =>
    /\ (Len(recipients) > 1 /\ HasScrypt(recipients)) =>
         /\ sent = NoFile
         /\ IF \E j \in 1..(FirstScrypt(recipients) - 1) :
                 recipients[j].theirPublicKey = LowOrderPoint
            THEN encErr = ErrWrap
            ELSE encErr = ErrScryptOnly
    /\ (Len(recipients) = 1 /\ HasScrypt(recipients)) => (encErr = NoErr /\ sent # NoFile)

C8_Witness ==
  /\ origin = "encrypt" /\ Len(recipients) > 1 /\ encErr = ErrScryptOnly
  /\ recipients[1].type = "X25519" /\ recipients[Len(recipients)].type = "scrypt"

(* --------------------- a file changed in transit ----------------------- *)
TamperRecipientLists ==
  Lists({Recipient(idA), Recipient(idB), NewScryptRecipient(pwA)}, 1, MaxRecipients)
TamperIdentityLists ==
  Lists({idA, idB, NewScryptIdentity(pwA)}, 0, MaxIdentities)

TypeStrings == {"X25519", "scrypt", "plugin"}

\* strings an argument can be changed into
ArgStrings ==
  {EncodeToString(LowOrderPoint), EncodeToString(X25519(EphemeralScalars[1], Basepoint).out),
   EncodeToString(Bytes(SaltSize, 1)), Itoa(0), [b64 |-> NoBytes, txt |-> <<"x">>]}

\* stanzas someone without the file key can add: a copy of a stanza of the
\* header, or a stanza wrapping a key of his own
ForeignKey == NumSeeds + 1
ExtraStanzas(rs) ==
  {rs[1],
   X25519Wrap(Recipient(idA), ForeignKey, 1).block,
   ScryptWrap(NewScryptRecipient(pwA), ForeignKey, 1).block,
   [Type |-> "X25519", Args |-> <<EncodeToString(LowOrderPoint)>>, Body |-> rs[1].Body]}

InsertAt(rs, k, st) == SubSeq(rs, 1, k) \o <<st>> \o SubSeq(rs, k + 1, Len(rs))
RemoveAt(rs, k) == SubSeq(rs, 1, k - 1) \o SubSeq(rs, k + 1, Len(rs))
SwapAt(rs, k) == [rs EXCEPT ![k] = rs[k + 1], ![k + 1] = rs[k]]

\* the stanza sequences one change away from rs
ChangedStanzas(rs) ==
  LET idx == 1..Len(rs) IN
    ({[rs EXCEPT ![k].Type = t] : k \in idx, t \in TypeStrings}
     \cup {[rs EXCEPT ![k].Args[1] = a] : k \in idx, a \in ArgStrings}
     \cup {[rs EXCEPT ![k].Args = Append(rs[k].Args, a)] : k \in idx, a \in ArgStrings}
     \cup {[rs EXCEPT ![k].Body.intact = FALSE] : k \in idx}
     \cup {SwapAt(rs, k) : k \in 1..(Len(rs) - 1)}
     \cup {InsertAt(rs, k, st) : k \in 0..Len(rs), st \in ExtraStanzas(rs)}
     \cup {RemoveAt(rs, k) : k \in {j \in idx : Len(rs) > 1}})
    \ {rs}

\* the files that differ from f outside the stanzas
DamagedFiles(f) ==
  {[f EXCEPT !.MAC = NoMAC],
   [f EXCEPT !.parseOK = FALSE],
   [f EXCEPT !.nonce = Bytes(NonceSize - 1, f.nonce.val)],
   [f EXCEPT !.payload.key = streamKey(NoKey, f.nonce)]}

\* the file is changed between Encrypt and Decrypt, its MAC left as it was
TamperStanzas ==
  /\ origin = "encrypt" /\ encErr = NoErr /\ pc = "idle"
  /\ \E rs \in ChangedStanzas(file.Recipients) : file' = [file EXCEPT !.Recipients = rs]
  /\ origin' = "tampered"
  /\ UNCHANGED <<recipients, plaintext, encErr, sent, decVars, idVars>>

\* the file is damaged outside its stanzas
Damage ==
  /\ origin = "encrypt" /\ encErr = NoErr /\ pc = "idle"
  /\ \E f \in DamagedFiles(file) : file' = f
  /\ origin' = "damaged"
  /\ UNCHANGED <<recipients, plaintext, encErr, sent, decVars, idVars>>

EncryptCallT == EncryptFrom(TamperRecipientLists)
DecryptCallT == DecryptFrom(TamperIdentityLists)

NextTamper ==
  EncryptCallT \/ TamperStanzas \/ Damage \/ DecryptCallT
    \/ ParseHeader \/ MatchLoop \/ VerifyMAC \/ ReadNonce \/ Streaming

SpecTamper == Init /\ [][NextTamper]_vars

\* the identities decrypt the file as Encrypt produced it
DecryptsOriginal == Decrypt(sent, identities).err = NoErr

ReaderReturned == pc \in {"Streaming", "Done"} \/ \E k \in 1..Len(trace) : trace[k] = "Streaming"

DecryptOrder == <<"ParseHeader", "MatchLoop", "VerifyMAC", "ReadNonce", "Streaming">>

\* C5: the steps of Decrypt run in the order ParseHeader, MatchLoop,
\* VerifyMAC, ReadNonce, Streaming; a reader is returned only if an Unwrap
\* returned the file key, the MAC recomputed under it equals the stored MAC
\* and the nonce was read in full; the nonce is read only after the MAC check
\* passed; and once a step has failed no further step runs.
C5_DecryptOrder ==
  /\ [](/\ Len(trace) <= Len(DecryptOrder)
        /\ trace = SubSeq(DecryptOrder, 1, Len(trace))
        /\ ReaderReturned =>
             /\ \E k \in 1..Len(calls) :
                  calls[k].op = "Unwrap" /\ calls[k].err = NoErr /\ calls[k].key = fileKey
             /\ fileKey # NoKey
             /\ headerMAC(fileKey, file.Recipients) = file.MAC
             /\ file.nonce.len >= NonceSize
        /\ (\E k \in 1..Len(trace) : trace[k] \in {"ReadNonce", "Streaming"}) =>
             (fileKey # NoKey /\ headerMAC(fileKey, file.Recipients) = file.MAC)
        /\ pc = "Fail" => (err # NoErr /\ out = 0))
  /\ [][pc = "Fail" => (pc' = "Fail" /\ trace' = trace /\ err' = err)]_vars
  /\ [][(err # NoErr) => pc' = "Fail"]_vars

C5_Witness ==
  /\ pc = "Done" /\ trace = DecryptOrder /\ out = plaintext /\ origin = "encrypt"
  /\ Len(file.Recipients) > 1

(* -------------------------- handcrafted files -------------------------- *)
\* the file key known to whoever assembles the header
CraftKey == Rand(0, 0)

PluginStanza ==
  [Type |-> "plugin", Args |-> <<>>, Body |-> aeadEncrypt(HKDF(0, <<>>, "plugin"), CraftKey)]

StanzaPool ==
  {X25519Wrap(Recipient(idA), CraftKey, 1).block,
   X25519Wrap(Recipient(idB), CraftKey, 1).block,
   [Type |-> "X25519", Args |-> <<EncodeToString(LowOrderPoint)>>,
    Body |-> X25519Wrap(Recipient(idA), CraftKey, 1).block.Body],
   ScryptWrap(NewScryptRecipient(pwA), CraftKey, 1).block,
   PluginStanza}

HandcraftedHeaders == Lists(StanzaPool, 1, MaxHeader)

MatcherPool ==
  {MatcherIdentity(NoErr, NoErr),
   MatcherIdentity(ErrIncorrectIdentity, NoErr),
   MatcherIdentity(ErrMatcherFatal, NoErr),
   MatcherIdentity(NoErr, ErrIncorrectIdentity),
   MatcherIdentity(NoErr, ErrMatcherFatal)}

AdvIdentityLists ==
  Lists({idA, idB, NewScryptIdentity(pwA)} \cup MatcherPool, 0, MaxIdentities)

\* a file is assembled by hand: any stanzas, a MAC under the file key or not
Handcraft ==
  /\ origin = "none"
  /\ \E rs \in HandcraftedHeaders, mac \in {TRUE, FALSE}, p \in Plaintexts :
       /\ file' = [parseOK |-> TRUE,
                   Recipients |-> rs,
                   MAC |-> IF mac THEN headerMAC(CraftKey, rs) ELSE NoMAC,
                   nonce |-> Bytes(NonceSize, 1),
                   payload |-> [key |-> streamKey(CraftKey, Bytes(NonceSize, 1)), pt |-> p]]
       /\ plaintext' = p
  /\ origin' = "handcrafted"
  /\ UNCHANGED <<recipients, encErr, sent, decVars, idVars>>

DecryptCallAdv == DecryptFrom(AdvIdentityLists)

NextAdv ==
  Handcraft \/ DecryptCallAdv \/ ParseHeader \/ MatchLoop \/ VerifyMAC \/ ReadNonce \/ Streaming

SpecAdv == Init /\ [][NextAdv]_vars

\* the header holds a scrypt stanza together with at least one other stanza
MixedScrypt(rs) == Len(rs) > 1 /\ \E k \in 1..Len(rs) : rs[k].Type = "scrypt"

\* C3: for a parsed header that holds a scrypt stanza together with another
\* stanza, whatever the positions, the MAC and the (non-empty) identities,
\* Decrypt never returns a reader: it has either not finished the matching
\* loop yet or has failed.
C3_ScryptAlone ==
  (origin = "handcrafted" /\ MixedScrypt(file.Recipients) /\ Len(identities) >= 1)
    => /\ ~ReaderReturned
       /\ pc \in {"idle", "ParseHeader", "MatchLoop", "Fail"}

\* the matching loop has run
LoopRan == "MatchLoop" \in Range(trace)

\* call a was made before call b in header order, then caller order
Before(a, b) ==
  \/ a.s < b.s
  \/ a.s = b.s /\ a.i < b.i
  \/ a.s = b.s /\ a.i = b.i /\ a.op = "Match" /\ b.op = "Unwrap"

\* pair (s, i) comes before pair (t, j) in the scan
Earlier(s, i, t, j) == s < t \/ (s = t /\ i < j)

Eligible(s, i) == Type(identities[i]) = file.Recipients[s].Type
Tried(s, i) == \E k \in 1..Len(calls) : calls[k].s = s /\ calls[k].i = i
LastCall == calls[Len(calls)]
Pairs == (1..Len(file.Recipients)) \X (1..Len(identities))
FirstScryptStanza ==
  CHOOSE k \in 1..Len(file.Recipients) :
    /\ file.Recipients[k].Type = "scrypt"
    /\ \A j \in 1..(k - 1) : file.Recipients[j].Type # "scrypt"

\* C9: the matching loop visits the stanzas in header order and, for each,
\* the identities in caller order; an identity whose type differs from the
\* stanza's is skipped without a call; a matcher's Match is called before its
\* Unwrap and Unwrap is called exactly when Match returned nil; the first
\* Unwrap that succeeds ends the whole scan and its key is the file key.
C9_LoopDiscipline ==
  LoopRan =>
    /\ \A k \in 1..(Len(calls) - 1) : Before(calls[k], calls[k + 1])
    /\ \A k \in 1..Len(calls) :
         /\ Eligible(calls[k].s, calls[k].i)
         /\ calls[k].op = "Match" =>
              /\ IsMatcher(identities[calls[k].i])
              /\ calls[k].err = NoErr =>
                   /\ k < Len(calls)
                   /\ calls[k + 1].op = "Unwrap"
                   /\ calls[k + 1].s = calls[k].s /\ calls[k + 1].i = calls[k].i
         /\ (calls[k].op = "Unwrap" /\ IsMatcher(identities[calls[k].i])) =>
              /\ k > 1
              /\ calls[k - 1].op = "Match" /\ calls[k - 1].err = NoErr
              /\ calls[k - 1].s = calls[k].s /\ calls[k - 1].i = calls[k].i
         /\ (calls[k].op = "Unwrap" /\ calls[k].err = NoErr) =>
              /\ k = Len(calls)
              /\ fileKey = calls[k].key
              /\ err \notin {ErrNoMatch, ErrScryptOnly}
    /\ \A q \in Pairs :
         (/\ Eligible(q[1], q[2])
          /\ \/ err = ErrNoMatch
             \/ Len(calls) > 0 /\ Earlier(q[1], q[2], LastCall.s, LastCall.i)
             \/ err = ErrScryptOnly /\ q[1] < FirstScryptStanza)
           => Tried(q[1], q[2])

C9_Witness ==
  /\ pc = "Done" /\ out = plaintext
  /\ Len(calls) >= 3
  /\ calls[1].op = "Match" /\ calls[1].err = NoErr
  /\ calls[2].err = ErrIncorrectIdentity
  /\ LastCall.s > 1 /\ LastCall.i > 1 /\ LastCall.err = NoErr

Recovered == {NoErr, ErrIncorrectIdentity}

\* C10: of the errors Match and Unwrap return only ErrIncorrectIdentity
\* lets the loop go on with the next identity; any other error is the last
\* call Decrypt makes and is returned by Decrypt as it is, without a reader,
\* even when a later identity or stanza would have unwrapped the file key.
C10_OnlyIncorrectIdentityRecovered ==
  LoopRan =>
    /\ \A k \in 1..Len(calls) :
         /\ calls[k].err \notin Recovered =>
              /\ k = Len(calls)
              /\ pc = "Fail" /\ err = calls[k].err
              /\ ~ReaderReturned
              /\ fileKey = NoKey
         /\ calls[k].err = ErrIncorrectIdentity =>
              /\ err # ErrIncorrectIdentity
              /\ k = Len(calls) =>
                   /\ err \in {ErrNoMatch, ErrScryptOnly}
                   /\ err = ErrNoMatch =>
                        \A q \in Pairs :
                          Earlier(calls[k].s, calls[k].i, q[1], q[2]) => ~Eligible(q[1], q[2])
    /\ (pc = "Fail" /\ trace[Len(trace)] = "MatchLoop" /\ err \notin {ErrNoMatch, ErrScryptOnly}) =>
         (Len(calls) > 0 /\ LastCall.err = err)

C10_Witness ==
  /\ pc = "Fail" /\ Len(calls) > 0
  /\ LastCall.err \notin Recovered /\ err = LastCall.err
  /\ \E q \in Pairs :
       /\ Earlier(LastCall.s, LastCall.i, q[1], q[2])
       /\ Eligible(q[1], q[2])
       /\ Unwrap(identities[q[2]], file.Recipients[q[1]]).err = NoErr
       /\ headerMAC(Unwrap(identities[q[2]], file.Recipients[q[1]]).fileKey, file.Recipients) = file.MAC

(* ----------------------- scrypt identities alone ----------------------- *)
\* the work factors written into a stanza, as text
WorkFactorTexts ==
  {Itoa(n) : n \in (-1)..(WorkFactorLimit + 1)}
    \cup {[b64 |-> NoBytes, txt |-> <<"+", "5">>],
          [b64 |-> NoBytes, txt |-> <<"0", "7">>],
          [b64 |-> NoBytes, txt |-> <<"x">>],
          [b64 |-> NoBytes, txt |-> <<>>]}

\* the key a stanza's body is sealed under: the scrypt key where the work
\* factor allows one to be computed, any other key where it does not
SealKey(password, salt, logN) ==
  IF logN.err = NoErr /\ logN.n \in 1..WorkFactorLimit
  THEN ScryptKey(password, <<salt>>, 2 ^ logN.n).key
  ELSE HKDF(0, <<>>, "")

ScryptStanza(password, salt, t) ==
  [Type |-> "scrypt",
   Args |-> <<EncodeToString(salt), t>>,
   Body |-> aeadEncrypt(SealKey(password, salt, Atoi(t)), CraftKey)]

ScryptStanzas ==
  {ScryptStanza(pw, Bytes(SaltSize, 1), t) : pw \in {pwA, pwB}, t \in WorkFactorTexts}
    \cup {ScryptStanza(pwA, Bytes(SaltSize - 1, 1), Itoa(DefaultWorkFactor)),
          [ScryptStanza(pwA, Bytes(SaltSize, 1), Itoa(DefaultWorkFactor))
             EXCEPT !.Args = <<Itoa(DefaultWorkFactor), Itoa(DefaultWorkFactor)>>],
          [ScryptStanza(pwA, Bytes(SaltSize, 1), Itoa(DefaultWorkFactor))
             EXCEPT !.Args = <<EncodeToString(Bytes(SaltSize, 1))>>],
          X25519Wrap(Recipient(idA), CraftKey, 1).block}

\* the state after SetMaxWorkFactor returned r, or panicked
MaxSet(r) ==
  /\ ident' = r.i
  /\ err' = r.err
  /\ pc' = IF r.err = NoErr THEN pc ELSE "Fail"
  /\ UNCHANGED <<encVars, identities, fileKey, calls, trace, out, uw>>

\* the caller sets the identity's maximum work factor, before its first use
SetMax ==
  /\ pc = "idle"
  /\ ~uw.called
  /\ \E logN \in 0..(WorkFactorLimit + 1) : MaxSet(SetMaxWorkFactor(ident, logN))

\* the caller hands a stanza to the identity's Unwrap
UnwrapCall ==
  /\ pc = "idle"
  /\ \E b \in ScryptStanzas :
       uw' = [called |-> TRUE, block |-> b, max |-> ident.maxWorkFactor,
              res |-> Unwrap(ident, b)]
  /\ UNCHANGED <<encVars, decVars, ident>>

NextScrypt == SetMax \/ UnwrapCall

SpecScrypt == Init /\ [][NextScrypt]_vars

\* the stanza is well formed but for the value of its work factor
WellFormedScrypt(b) ==
  /\ b.Type = "scrypt"
  /\ Len(b.Args) = 2
  /\ DecodeString(b.Args[1]).err = NoErr
  /\ DecodeString(b.Args[1]).bytes.len = SaltSize
  /\ Atoi(b.Args[2]).err = NoErr

\* C7: a scrypt identity with maximum work factor m rejects a well-formed
\* stanza whose logN exceeds m with "scrypt work factor too large" and one
\* whose logN is zero or less with "invalid scrypt work factor", both fatal
\* and without running scrypt; scrypt is only ever run with 0 < logN <= m.
C7_WorkFactorCap ==
  uw.called =>
    /\ uw.max = ident.maxWorkFactor
    /\ uw.max \in 1..WorkFactorLimit
    /\ \A k \in 1..Len(uw.res.kdf) : 0 < uw.res.kdf[k] /\ uw.res.kdf[k] <= uw.max
    /\ WellFormedScrypt(uw.block) =>
         /\ Atoi(uw.block.Args[2]).n > uw.max =>
              (uw.res.err = ErrScryptTooLarge /\ uw.res.kdf = <<>> /\ uw.res.fileKey = NoKey)
         /\ Atoi(uw.block.Args[2]).n <= 0 =>
              (uw.res.err = ErrScryptInvalid /\ uw.res.kdf = <<>> /\ uw.res.fileKey = NoKey)
         /\ (0 < Atoi(uw.block.Args[2]).n /\ Atoi(uw.block.Args[2]).n <= uw.max) =>
              /\ uw.res.kdf = <<Atoi(uw.block.Args[2]).n>>
              /\ uw.res.err \in {NoErr, ErrIncorrectIdentity}

C7_Witness ==
  /\ uw.called /\ WellFormedScrypt(uw.block)
  /\ uw.max # DefaultMaxWorkFactor
  /\ Atoi(uw.block.Args[2]).n = uw.max + 1
  /\ uw.res.err = ErrScryptTooLarge /\ uw.res.kdf = <<>>

====
